---- MODULE Spec2Model ----
(***************************************************************************)
(* A model of code-code-server: the devcontainer launcher of               *)
(* src/unnamed/part_001 (package main) and src/project.go (package         *)
(* project; src/dockerfile/dockerfile.go holds the same image definition   *)
(* builder as a package of its own).                                       *)
(*                                                                         *)
(* Text is modelled by what the Go code does with it:                      *)
(*  - a display name is a sequence of characters;                          *)
(*  - a Dockerfile text is the sequence of its lines, so that              *)
(*    strings.Join(parts, "\n") is the concatenation of the parts' lines   *)
(*    and the empty string is the single empty line;                       *)
(*  - a mount or folder string is a sequence of atoms (separators and      *)
(*    words), a template is a sequence of literal atoms and ${...}         *)
(*    expansions.                                                          *)
(***************************************************************************)
EXTENDS Integers, Sequences, FiniteSets, TLC

VARIABLES
    pc,               \* position of the program (main's Action, then ContainerContext.Run)
    devcontainer,     \* the devcontainer.json document / the parsed DevContainer
    dockerfileOnDisk, \* the user's base Dockerfile: [exists, content]
    gistIdSet,        \* whether SETTINGS_SYNC_GIST_ID is set in the environment
    gist,             \* the hosted gist: its files
    fetched,          \* per gist file name, how fetchContentsFromGist ended in this run
    buildCmd,         \* the `docker build` invocation: [issued, tag, stdin, context, ok]
    url,              \* the ServiceURL returned by GetServiceURL: [valid, Host, Port, WorkspaceFolder]
    ctx,              \* the ContainerContext: [valid, cmd, name]
    steps,            \* the workflow steps main has invoked, in order
    failed,           \* the step whose error main returned ("none" when none)
    printed,          \* the URLs prettyUrlPrint has printed
    started,          \* c.cmd.Start() succeeded
    containerAlive,   \* the container started by `docker run` is running
    runErr,           \* what ContainerContext.Run returned ("none" while it has not)
    kills,            \* the container names `docker kill` was issued for, in order
    sigAfterStart,    \* termination signals delivered to the program since the container process started
    sigDropped,       \* of those, the ones os/signal dropped (no receiver ready on the channel)
    sigRecv,          \* waitForSignal received a signal from its channel
    exitStatus,       \* "none" while running, then "0", "1" (log.Fatal) or "signal"
    stepFails,        \* the sub-steps of wrapDockerFile whose call returns an error in this run
    bound,            \* the TCP ports other processes of the host are listening on
    probe             \* getAvailablePort's listener: [open, port]

vars == <<pc, devcontainer, dockerfileOnDisk, gistIdSet, gist, fetched, buildCmd, url, ctx,
          steps, failed, printed, started, containerAlive, runErr, kills,
          sigAfterStart, sigDropped, sigRecv, exitStatus, stepFails, bound, probe>>

----------------------------------------------------------------------------
(* Bounds of the model. *)

\* the longest display name drawn
MaxNameLen == 2
\* the longest extension list drawn
MaxExt == 2
\* the most termination signals delivered after the container process started
MaxSignals == 2

----------------------------------------------------------------------------
(* Sequences. *)

RECURSIVE Flatten(_)
Flatten(ss) == IF ss = <<>> THEN <<>> ELSE Head(ss) \o Flatten(Tail(ss))

SeqsUpTo(S, n) == UNION {[1..k -> S] : k \in 0..n}

Range(s) == {s[i] : i \in DOMAIN s}

----------------------------------------------------------------------------
(* getImageTag: strings.ToLower, strings.ReplaceAll(name, " ", "_"),        *)
(* fmt.Sprintf("%s_code_coder_server", name).                               *)

NameChars == {"A", "b", " ", "_"}
UpperChars == {"A", "B"}

ToLowerChar(c) == CASE c = "A" -> "a" [] c = "B" -> "b" [] OTHER -> c
ToLower(s) == [i \in DOMAIN s |-> ToLowerChar(s[i])]
ReplaceSpace(s) == [i \in DOMAIN s |-> IF s[i] = " " THEN "_" ELSE s[i]]

TagSuffix == <<"_", "c", "o", "d", "e", "_", "c", "o", "d", "e", "r", "_",
               "s", "e", "r", "v", "e", "r">>

getImageTag_NoLower(name) == ReplaceSpace(name) \o TagSuffix

getImageTag(name) == ReplaceSpace(ToLower(name)) \o TagSuffix

----------------------------------------------------------------------------
(* Paths: an absolute, cleaned path is the sequence of its components.     *)

\* the string of a path, as atoms: "/" for the root, else "/c1/c2..."
PathStr(p) == IF p = <<>> THEN <<"/">> ELSE Flatten([i \in DOMAIN p |-> <<"/", p[i]>>])

\* filepath.Dir
Dir(p) == IF Len(p) <= 1 THEN <<>> ELSE SubSeq(p, 1, Len(p) - 1)

\* filepath.Base ("/" for the root)
Base(p) == IF p = <<>> THEN "/" ELSE p[Len(p)]

----------------------------------------------------------------------------
(* Templates and github.com/buildkite/interpolate.                         *)

Lit(s) == [t |-> "lit", s |-> s]   \* literal text
Var(s) == [t |-> "var", s |-> s]   \* ${s}: the value, empty when unset
Req(s) == [t |-> "req", s |-> s]   \* ${s?}: the value, an error when unset

getMapEnv(d) ==
    LET localWorkspaceFolder == Dir(d.DirPath)
        localWorkspaceFolderBasename == Base(localWorkspaceFolder)
    IN  [localWorkspaceFolder |-> PathStr(localWorkspaceFolder),
         localWorkspaceFolderBasename |-> <<localWorkspaceFolderBasename>>]

ExpandErr(env, tok) == tok.t = "req" /\ tok.s \notin DOMAIN env

Expand(env, tok) ==
    CASE tok.t = "lit" -> <<tok.s>>
      [] OTHER -> IF tok.s \in DOMAIN env THEN env[tok.s] ELSE <<>>

\* interpolate.Interpolate: (string, error)
Interpolate(env, tmpl) ==
    IF \E i \in DOMAIN tmpl : ExpandErr(env, tmpl[i])
    THEN [val |-> <<>>, err |-> TRUE]
    ELSE [val |-> Flatten([i \in DOMAIN tmpl |-> Expand(env, tmpl[i])]), err |-> FALSE]

DefaultWorkspaceMount ==
    <<Lit("source="), Var("localWorkspaceFolder"), Lit(","), Lit("target="),
      Lit("/"), Lit("workspace"), Lit("/"), Var("localWorkspaceFolderBasename"),
      Lit(","), Lit("type=bind")>>

DefaultWorkspaceFolder ==
    <<Lit("/"), Lit("workspace"), Lit("/"), Var("localWorkspaceFolderBasename")>>

getWorkspaceBinding(d) ==
    LET workspaceMount == IF d.WorkspaceMount = <<>> THEN DefaultWorkspaceMount
                          ELSE d.WorkspaceMount
    IN  Interpolate(getMapEnv(d), workspaceMount)

\* a slip: the default folder of another tool (/workspaces/...)
getWorkspaceFolder_OtherDefault(d) ==
    LET workspaceFolder == IF d.WorkspaceFolder = <<>>
                           THEN <<Lit("/"), Lit("workspaces"), Lit("/"),
                                  Var("localWorkspaceFolderBasename")>>
                           ELSE d.WorkspaceFolder
    IN  Interpolate(getMapEnv(d), workspaceFolder)

getWorkspaceFolder(d) ==
    LET workspaceFolder == IF d.WorkspaceFolder = <<>> THEN DefaultWorkspaceFolder
                           ELSE d.WorkspaceFolder
    IN  Interpolate(getMapEnv(d), workspaceFolder)

\* getBuildContext: Build.Context is [abs, path]
getBuildContext(d) ==
    IF d.Context.abs THEN d.Context.path ELSE d.DirPath \o d.Context.path

----------------------------------------------------------------------------
(* JSON values of the settings maps, and github.com/imdario/mergo.          *)
(* A value is null, a scalar (0 is Go's empty value: false, 0, ""), an      *)
(* object of scalars, or a number encoding/json cannot write (JSON5's NaN   *)
(* and Infinity).                                                           *)

EmptyObj == [k \in {} |-> 0]
Null == [kind |-> "null", num |-> 0, obj |-> EmptyObj]
Scalar(n) == [kind |-> "scalar", num |-> n, obj |-> EmptyObj]
Obj(f) == [kind |-> "map", num |-> 0, obj |-> f]
NaN == [kind |-> "nan", num |-> 0, obj |-> EmptyObj]

EmptyMap == [k \in {} |-> Null]

\* mergo's isEmptyValue of a map element (an interface value)
isEmptyValue(v) ==
    CASE v.kind = "null" -> TRUE
      [] v.kind = "scalar" -> v.num = 0
      [] v.kind = "nan" -> FALSE
      [] OTHER -> DOMAIN v.obj = {}

\* deepMerge of an object of scalars into another one (no overwrite)
deepMergeObj(dst, src) ==
    [k \in DOMAIN dst \cup DOMAIN src |->
        IF k \notin DOMAIN src THEN dst[k]
        ELSE IF k \notin DOMAIN dst THEN src[k]
        ELSE IF dst[k] = 0 THEN src[k] ELSE dst[k]]

\* what deepMerge leaves at a key both maps hold
mergeElement(dv, sv) ==
    CASE sv.kind = "null" -> dv
      [] sv.kind \in {"scalar", "nan"} -> IF isEmptyValue(dv) THEN sv ELSE dv
      [] OTHER ->
            IF dv.kind = "map" THEN Obj(deepMergeObj(dv.obj, sv.obj))
            ELSE IF isEmptyValue(dv) THEN sv ELSE dv

\* mergo.Merge(&dst, src) on map[string]interface{}
Merge(dst, src) ==
    LET keys == DOMAIN dst \cup {k \in DOMAIN src : src[k].kind # "null"}
    IN  [k \in keys |->
            IF k \notin DOMAIN src THEN dst[k]
            ELSE IF k \notin DOMAIN dst THEN src[k]
            ELSE mergeElement(dst[k], src[k])]

----------------------------------------------------------------------------
(* The Remote Settings Fetcher: fetchContentsFromGist.                      *)
(* A gist file's content is empty, malformed, a JSON object or a JSON list. *)

SettingsFile == "settings.json"
KeybindingsFiles == <<"keybindings.json", "keybindingsMac.json">>
GistFiles == {SettingsFile} \cup Range(KeybindingsFiles)

Content(form, settings, keybindings) ==
    [form |-> form, settings |-> settings, keybindings |-> keybindings]

\* getSettingsSyncGistId, client.Gists.Get, gist.GetFiles()[filename]:
\* e is [idSet, files, net]; net[filename] is whether this call's request succeeds
fetchContentsFromGist(e, filename) ==
    IF ~e.idSet THEN [err |-> "noid", content |-> Content("empty", EmptyMap, <<>>)]
    ELSE IF ~e.net[filename] THEN [err |-> "neterr", content |-> Content("empty", EmptyMap, <<>>)]
    ELSE IF filename \notin DOMAIN e.files
         THEN [err |-> "nofile", content |-> Content("empty", EmptyMap, <<>>)]
    ELSE [err |-> "ok", content |-> e.files[filename]]

\* json5.Unmarshal into []KeyBinding keeps the three known members of each entry
asKeyBinding(x) == [key |-> x.key, command |-> x.command, when |-> x.when]

----------------------------------------------------------------------------
(* The Image Definition Builder: the lines of the build definition.        *)
(* A line is [text, arg, b64]: the instruction's format string, its %s      *)
(* argument, and the base64-encoded document it embeds.                     *)

NoPayload == [kind |-> "none", script |-> <<>>, settings |-> EmptyMap, keybindings |-> <<>>]
ScriptPayload(lines) == [NoPayload EXCEPT !.kind = "script", !.script = lines]
SettingsPayload(m) == [NoPayload EXCEPT !.kind = "settings", !.settings = m]
KeybindingsPayload(l) == [NoPayload EXCEPT !.kind = "keybindings", !.keybindings = l]

Line(text) == [text |-> text, arg |-> "", b64 |-> NoPayload]
LineArg(text, arg) == [text |-> text, arg |-> arg, b64 |-> NoPayload]
LineB64(text, payload) == [text |-> text, arg |-> "", b64 |-> payload]

\* the empty string
EmptyText == <<Line("")>>

\* strings.Join(texts, "\n"); of no text at all it is the empty string
Join(texts) == IF texts = <<>> THEN EmptyText ELSE Flatten(texts)

CodeServerInstall == Line("RUN curl -fsSL https://code-server.dev/install.sh | sh")
Entrypoint == Line("ENTRYPOINT [\"/opt/code-server/entrypoint.sh\"]")

MkdirCodeServer == Line("RUN mkdir -p /opt/code-server")
WriteEntrypoint == "RUN echo '%s' | base64 -d > /opt/code-server/entrypoint.sh"
ChmodEntrypoint == Line("RUN chmod +x /opt/code-server/entrypoint.sh")
MkdirUser == Line("RUN mkdir -p /opt/code-server/.vscode/User")
WriteSettings == "RUN echo '%s' | base64 -d > /opt/code-server/.vscode/User/settings.json"
WriteKeybindings == "RUN echo '%s' | base64 -d > /opt/code-server/.vscode/User/keybindings.json"
InstallExtension == "RUN code-server --install-extension %s --extensions-dir /opt/code-server/.vscode/extensions/"
ConfigYaml == Line("RUN echo \"auth: none\" > /opt/code-server/config.yml")
ChmodCodeServer == Line("RUN chmod -R o+wr /opt/code-server/")
LaunchCodeServer == "code-server --user-data-dir /opt/code-server/.vscode --config /opt/code-server/config.yml --bind-addr 0.0.0.0:8080"

Ok(text) == [val |-> text, err |-> FALSE]
Err == [val |-> EmptyText, err |-> TRUE]

createEntryScriptCommands(d) ==
    Ok(<<"#!/bin/bash", "set -e", "set -x", d.PostCreateCommand, LaunchCodeServer>>)

createEntryScript(d) ==
    LET entryScriptCommands == createEntryScriptCommands(d)
    IN  IF entryScriptCommands.err THEN Err
        ELSE Ok(Join(<< <<MkdirCodeServer>>,
                        <<LineB64(WriteEntrypoint, ScriptPayload(entryScriptCommands.val))>>,
                        <<ChmodEntrypoint>> >>))

\* the settings map createSettingJson dumps: the local one, merged with the
\* gist's settings.json when that was fetched and parsed
mergedSettings(e, d) ==
    LET sync == fetchContentsFromGist(e, SettingsFile)
    IN  IF sync.err = "ok" /\ sync.content.form = "object"
        THEN Merge(d.Settings, sync.content.settings)
        ELSE d.Settings

\* dumpAsJson of a settings map: encoder.Encode writes nothing when a value
\* cannot be encoded, and json.Indent then fails on the empty input
dumpAsJson(obj) ==
    IF \E k \in DOMAIN obj : obj[k].kind = "nan"
    THEN [val |-> EmptyMap, err |-> TRUE]
    ELSE [val |-> obj, err |-> FALSE]

\* a slip: no remote settings, no instruction
createSettingJson_NothingWithoutGist(e, d) ==
    IF fetchContentsFromGist(e, SettingsFile).err # "ok" THEN Ok(EmptyText)
    ELSE Ok(Join(<< <<MkdirUser>>,
                    <<LineB64(WriteSettings, SettingsPayload(mergedSettings(e, d)))>> >>))

createSettingJson(e, d) ==
    LET settingsJsonContents == dumpAsJson(mergedSettings(e, d))
    IN  IF settingsJsonContents.err THEN Err
        ELSE Ok(Join(<< <<MkdirUser>>,
                        <<LineB64(WriteSettings,
                                  SettingsPayload(settingsJsonContents.val))>> >>))

\* whether the loop of createKeybindingsJson returns at this file
keybindingsUsable(e, filename) ==
    LET sync == fetchContentsFromGist(e, filename)
    IN  sync.err = "ok" /\ sync.content.form = "list"

\* the files createKeybindingsJson asks the gist for: each one until one is usable
keybindingsTried(e) ==
    {KeybindingsFiles[i] : i \in {j \in DOMAIN KeybindingsFiles :
        \A k \in 1..(j - 1) : ~keybindingsUsable(e, KeybindingsFiles[k])}}

createKeybindingsJson(e, d) ==
    LET usable == {i \in DOMAIN KeybindingsFiles : keybindingsUsable(e, KeybindingsFiles[i])}
    IN  IF usable = {} THEN Ok(EmptyText)
        ELSE LET first == CHOOSE i \in usable : \A j \in usable : i <= j
                 obj == fetchContentsFromGist(e, KeybindingsFiles[first]).content.keybindings
             IN  Ok(Join(<< <<MkdirUser>>,
                            <<LineB64(WriteKeybindings,
                                      KeybindingsPayload([i \in DOMAIN obj |-> asKeyBinding(obj[i])]))>> >>))

modifyCodeServerDirPermissions(d) == Ok(<<ChmodCodeServer>>)

installExtensions(d) ==
    Ok(Join([i \in DOMAIN d.Extensions |-> <<LineArg(InstallExtension, d.Extensions[i])>>]))

createConfigYaml(d) == Ok(<<ConfigYaml>>)

\* log.Print(err); x = ""
orEmpty(r) == IF r.err THEN EmptyText ELSE r.val

\* what a sub-step's call returns to wrapDockerFile: its error when the call
\* fails (e.fails), else what its code returns
returned(e, step, r) == IF step \in e.fails THEN Err ELSE r

\* a slip: the extensions are installed before the startup script is written
wrapDockerFile_ExtensionsFirst(e, d, disk) ==
    IF ~disk.exists THEN Err
    ELSE Ok(Join(<<disk.content,
                   <<CodeServerInstall>>,
                   orEmpty(createSettingJson(e, d)),
                   orEmpty(createKeybindingsJson(e, d)),
                   orEmpty(installExtensions(d)),
                   createEntryScript(d).val,
                   orEmpty(createConfigYaml(d)),
                   orEmpty(modifyCodeServerDirPermissions(d)),
                   <<Entrypoint>> >>))

\* a slip: a failure to write the settings ends the build
wrapDockerFile_SettingsFatal(e, d, disk) ==
    IF \/ ~disk.exists
       \/ returned(e, "createEntryScript", createEntryScript(d)).err
       \/ returned(e, "createSettingJson", createSettingJson(e, d)).err
    THEN Err
    ELSE Ok(Join(<<disk.content,
                   <<CodeServerInstall>>,
                   createSettingJson(e, d).val,
                   orEmpty(returned(e, "createKeybindingsJson", createKeybindingsJson(e, d))),
                   createEntryScript(d).val,
                   orEmpty(returned(e, "installExtensions", installExtensions(d))),
                   orEmpty(returned(e, "createConfigYaml", createConfigYaml(d))),
                   orEmpty(returned(e, "modifyCodeServerDirPermissions",
                                    modifyCodeServerDirPermissions(d))),
                   <<Entrypoint>> >>))

wrapDockerFile(e, d, disk) ==
    IF ~disk.exists THEN Err
    ELSE LET entryScriptCreation ==
                 returned(e, "createEntryScript", createEntryScript(d))
         IN  IF entryScriptCreation.err THEN Err
             ELSE LET extensionsInstallation ==
                          orEmpty(returned(e, "installExtensions", installExtensions(d)))
                      codeServerDirPermissionModification ==
                          orEmpty(returned(e, "modifyCodeServerDirPermissions",
                                           modifyCodeServerDirPermissions(d)))
                      configYamlCreation ==
                          orEmpty(returned(e, "createConfigYaml", createConfigYaml(d)))
                      settingJsonCreation ==
                          orEmpty(returned(e, "createSettingJson", createSettingJson(e, d)))
                      keybindingsJsonCreation ==
                          orEmpty(returned(e, "createKeybindingsJson",
                                           createKeybindingsJson(e, d)))
                  IN  Ok(Join(<<disk.content,
                                <<CodeServerInstall>>,
                                settingJsonCreation,
                                keybindingsJsonCreation,
                                entryScriptCreation.val,
                                extensionsInstallation,
                                configYamlCreation,
                                codeServerDirPermissionModification,
                                <<Entrypoint>> >>))

----------------------------------------------------------------------------
(* The inputs drawn: configs, base Dockerfiles, gists.                      *)

DefaultDirPath == <<"proj", ".devcontainer">>

\* a DevContainer; Settings nil and {} are both the empty map, as createSettingJson
\* replaces nil by {} before anything else
Config(name, exts, settings, mount, folder, dir, user) ==
    [DirPath |-> dir, Name |-> name,
     Context |-> [abs |-> FALSE, path |-> <<>>], BuildArgs |-> {},
     RunArgs |-> IF user = "" THEN <<>> ELSE <<"--privileged">>,
     WorkspaceMount |-> mount, WorkspaceFolder |-> folder,
     Settings |-> settings, Extensions |-> exts,
     ForwardPorts |-> IF user = "" THEN <<>> ELSE <<"3000:3000">>,
     PostCreateCommand |-> IF user = "" THEN "" ELSE "make setup",
     RemoteUser |-> user]

DemoName == <<"A", "b">>

Names == SeqsUpTo(NameChars, MaxNameLen)
ExtensionIds == {"ext.a", "ext.b"}
ExtensionLists == SeqsUpTo(ExtensionIds, MaxExt)

\* declared workspaceMount values ("" is <<>>: left to the default)
Mounts ==
    { <<>>,
      <<Lit("source="), Var("localWorkspaceFolder"), Lit(","), Lit("target="),
        Lit("/"), Lit("custom"), Lit(","), Lit("type=bind")>>,
      <<Lit("source="), Var("localWorkspaceFolder"), Lit(","), Lit("target="),
        Lit("/"), Lit("workspace"), Lit("/"), Var("localWorkspaceFolderBasename"),
        Lit(","), Lit("type=bind"), Lit(","), Lit("consistency=cached")>>,
      <<Lit("source="), Req("hostHome"), Lit(","), Lit("target="),
        Lit("/"), Lit("custom"), Lit(","), Lit("type=bind")>> }

\* declared workspaceFolder values
Folders ==
    { <<>>,
      <<Lit("/"), Lit("custom")>>,
      <<Lit("/"), Lit("custom"), Lit("/"), Var("containerWorkspaceFolder")>>,
      <<Lit("/"), Req("containerWorkspaceFolder")>> }

DirPaths == {DefaultDirPath, <<".devcontainer">>}

TopKeys == {"a", "b"}
LocalValues == {Scalar(0), Scalar(1), Obj([k \in {"x"} |-> 1])}
RemoteValues == {Scalar(0), Scalar(2), Obj([k \in {"x", "y"} |-> 2])}
MapsOver(K, V) == UNION {[D -> V] : D \in SUBSET K}
LocalMaps == MapsOver(TopKeys, LocalValues)
RemoteMaps == MapsOver(TopKeys, RemoteValues)

Absent == Content("absent", EmptyMap, <<>>)
Empty == Content("empty", EmptyMap, <<>>)
Malformed == Content("malformed", EmptyMap, <<>>)
Object(m) == Content("object", m, <<>>)
List(l) == Content("list", EmptyMap, l)

KbEntry(key, command) == [key |-> key, command |-> command, when |-> "", args |-> "x"]
KbA == <<KbEntry("ctrl+a", "selectAll")>>
KbB == <<KbEntry("cmd+a", "selectAll"), KbEntry("cmd+s", "save")>>

\* a gist of these three files; an absent one is no file of the gist
MkGist(s, k1, k2) ==
    LET all == [f \in GistFiles |->
                   CASE f = SettingsFile -> s
                     [] f = KeybindingsFiles[1] -> k1
                     [] OTHER -> k2]
    IN  [f \in {g \in GistFiles : all[g].form # "absent"} |-> all[f]]

Disk(content) == [exists |-> TRUE, content |-> content]
NoDisk == [exists |-> FALSE, content |-> EmptyText]
FromUbuntu == <<Line("FROM ubuntu")>>
Disks == { Disk(FromUbuntu),
           Disk(<<Line("FROM ubuntu"), Line("")>>),
           Disk(<<Line("FROM ubuntu"), Entrypoint>>),
           NoDisk }

\* the cases drawn are <<config, gist, base Dockerfile, SETTINGS_SYNC_GIST_ID set>>
NoGist == MkGist(Absent, Absent, Absent)
FullGist == MkGist(Object([k \in {"a"} |-> Scalar(2)]), List(KbA), List(KbB))

NameCases ==
    { <<Config(n, <<>>, EmptyMap, <<>>, <<>>, DefaultDirPath, ""),
        NoGist, Disk(FromUbuntu), FALSE>> : n \in Names }

WorkspaceCases ==
    { <<Config(DemoName, <<>>, EmptyMap, c[1], c[2], c[3], c[4]),
        NoGist, Disk(FromUbuntu), FALSE>> :
      c \in Mounts \X Folders \X DirPaths \X {"", "vscode"} }

SyncCases ==
    { <<Config(DemoName, <<"ext.a">>, [k \in {"a"} |-> Scalar(1)], <<>>, <<>>,
               DefaultDirPath, ""),
        FullGist, c[1], c[2]>> : c \in Disks \X BOOLEAN }

OrderCases ==
    { <<Config(DemoName, c[1], EmptyMap, <<>>, <<>>, DefaultDirPath, ""),
        MkGist(Absent, c[2], c[3]), c[4], c[5]>> :
      c \in ExtensionLists \X {Absent, Empty, Malformed, List(KbA)}
                           \X {Absent, List(KbB)} \X Disks \X BOOLEAN }

SettingsCases ==
    { <<Config(DemoName, <<>>, c[1], <<>>, <<>>, DefaultDirPath, ""),
        MkGist(c[2], Absent, Absent), Disk(FromUbuntu), c[3]>> :
      c \in LocalMaps \X ({Absent, Malformed} \cup {Object(m) : m \in RemoteMaps})
                      \X BOOLEAN }

\* settings that hold, or get from the gist, a number JSON cannot express
UnencodableLocal ==
    { EmptyMap, [k \in {"a"} |-> Scalar(0)], [k \in {"a"} |-> NaN],
      [k \in {"a", "b"} |-> IF k = "a" THEN Scalar(1) ELSE NaN] }
UnencodableRemote ==
    { Absent, Object([k \in {"a"} |-> NaN]), Object([k \in {"b"} |-> Scalar(2)]) }

EncodeCases ==
    { <<Config(DemoName, c[1], c[2], <<>>, <<>>, DefaultDirPath, ""),
        MkGist(c[3], List(KbA), Absent), c[4], c[5]>> :
      c \in {<<>>, <<"ext.a">>} \X UnencodableLocal \X UnencodableRemote
                                \X {Disk(FromUbuntu), NoDisk} \X BOOLEAN }

\* the cases of the whole program's runs, and those of the image definition builder's
Cases == NameCases \cup WorkspaceCases \cup SyncCases
BuildCases == OrderCases \cup SettingsCases \cup EncodeCases

ContainerNames == {"aBcD", "eFgH"}
Ports == {49152, 49153}
Hosts == {"myhost", "192.0.2.10"}
Signals == {"SIGHUP", "SIGINT", "SIGTERM"}

FetchNotCalled == [f \in GistFiles |-> "notcalled"]
NoBuildCmd == [issued |-> FALSE, ok |-> FALSE, tag |-> <<>>, stdin |-> EmptyText,
               context |-> <<>>, buildArgs |-> {}]
NoUrl == [valid |-> FALSE, Host |-> "", Port |-> 0, WorkspaceFolder |-> <<>>]
NoCmd == [p |-> 0, name |-> "", mount |-> <<>>, w |-> <<>>, runArgs |-> <<>>,
          forwardPorts |-> <<>>, u |-> "", image |-> <<>>]
NoCtx == [valid |-> FALSE, cmd |-> NoCmd, name |-> ""]
\* no listener yet: net.Listen has not been called, or it failed
NoProbe == [open |-> FALSE, port |-> 0]

\* the instruction-producing sub-steps wrapDockerFile calls
SubSteps ==
    {"createEntryScript", "installExtensions", "modifyCodeServerDirPermissions",
     "createConfigYaml", "createSettingJson", "createKeybindingsJson"}

InitOfFailing(cases, failSets) ==
    /\ \E c \in cases :
          /\ devcontainer = c[1]
          /\ gist = c[2]
          /\ dockerfileOnDisk = c[3]
          /\ gistIdSet = c[4]
    /\ stepFails \in failSets
    /\ pc = "args"
    /\ fetched = FetchNotCalled
    /\ buildCmd = NoBuildCmd
    /\ url = NoUrl
    /\ ctx = NoCtx
    /\ steps = <<>>
    /\ failed = "none"
    /\ printed = <<>>
    /\ started = FALSE
    /\ containerAlive = FALSE
    /\ runErr = "none"
    /\ kills = <<>>
    /\ sigAfterStart = 0
    /\ sigDropped = 0
    /\ sigRecv = FALSE
    /\ exitStatus = "none"
    /\ bound = {}
    /\ probe = NoProbe

\* the sub-steps return the errors their code produces, and no other
InitOf(cases) == InitOfFailing(cases, {{}})

----------------------------------------------------------------------------
(* main's Action, step by step.                                             *)

inputVars == <<devcontainer, dockerfileOnDisk, gistIdSet, gist, stepFails>>
buildVars == <<fetched, buildCmd>>
runVars == <<started, containerAlive, runErr, kills>>
sigVars == <<sigAfterStart, sigDropped, sigRecv>>
netVars == <<bound, probe>>

\* `return err` in the Action: app.Run returns it and main calls log.Fatal
Fatal(step) ==
    /\ failed' = step
    /\ pc' = "exited"
    /\ exitStatus' = "1"

\* c.Args().Len() == 0
CheckArgs ==
    /\ pc = "args"
    /\ \E given \in BOOLEAN :
          IF given THEN pc' = "statProject" /\ UNCHANGED <<failed, exitStatus>>
          ELSE Fatal("args")
    /\ UNCHANGED <<inputVars, netVars, buildVars, url, ctx, steps, printed, runVars, sigVars>>

\* os.Stat(projectDirPath)
StatProjectDir ==
    /\ pc = "statProject"
    /\ \E exists \in BOOLEAN :
          IF exists THEN pc' = "statDevcontainer" /\ UNCHANGED <<failed, exitStatus>>
          ELSE Fatal("projectDir")
    /\ UNCHANGED <<inputVars, netVars, buildVars, url, ctx, steps, printed, runVars, sigVars>>

\* os.Stat(devcontainerDirPath)
StatDevcontainerDir ==
    /\ pc = "statDevcontainer"
    /\ \E exists \in BOOLEAN :
          IF exists THEN pc' = "parse" /\ UNCHANGED <<failed, exitStatus>>
          ELSE Fatal("devcontainerDir")
    /\ UNCHANGED <<inputVars, netVars, buildVars, url, ctx, steps, printed, runVars, sigVars>>

\* parseDevcontainerJson: the file is missing, does not parse, or parses
parseDevcontainerJson ==
    /\ pc = "parse"
    /\ steps' = Append(steps, "parse")
    /\ \E file \in {"missing", "malformed", "ok"} :
          CASE file = "missing" -> Fatal("configFile")
            [] file = "malformed" -> Fatal("parse")
            [] OTHER -> pc' = "build" /\ UNCHANGED <<failed, exitStatus>>
    /\ UNCHANGED <<inputVars, netVars, buildVars, url, ctx, printed, runVars, sigVars>>

\* the outcome of each fetch wrapDockerFile makes, by gist file
fetchLog(e, disk) ==
    [f \in GistFiles |->
        IF /\ disk.exists
           /\ "createEntryScript" \notin e.fails
           /\ f = SettingsFile \/ f \in keybindingsTried(e)
        THEN fetchContentsFromGist(e, f).err
        ELSE "notcalled"]

\* a slip: a failed build is logged and the workflow goes on
BuildFailed_GoesOn ==
    /\ failed' = failed
    /\ pc' = "serviceURL"
    /\ exitStatus' = exitStatus

\* BuildImage's `return "", err`, returned by the Action in turn
BuildFailed == Fatal("build")

\* project.BuildImage: wrapDockerFile, then `docker build -t tag -f - context`
BuildImage ==
    /\ pc = "build"
    /\ steps' = Append(steps, "build")
    /\ \E net \in [GistFiles -> BOOLEAN], exit0 \in BOOLEAN :
          LET e == [idSet |-> gistIdSet, files |-> gist, net |-> net,
                   fails |-> stepFails]
              dockerfileContent == wrapDockerFile(e, devcontainer, dockerfileOnDisk)
          IN  /\ fetched' = fetchLog(e, dockerfileOnDisk)
              /\ IF dockerfileContent.err
                 THEN /\ buildCmd' = buildCmd
                      /\ BuildFailed
                 ELSE /\ buildCmd' = [issued |-> TRUE, ok |-> exit0,
                                      tag |-> getImageTag(devcontainer.Name),
                                      stdin |-> dockerfileContent.val,
                                      context |-> getBuildContext(devcontainer),
                                      buildArgs |-> devcontainer.BuildArgs]
                      /\ IF exit0
                         THEN pc' = "serviceURL" /\ UNCHANGED <<failed, exitStatus>>
                         ELSE BuildFailed
    /\ UNCHANGED <<inputVars, netVars, url, ctx, printed, runVars, sigVars>>

\* project.GetServiceURL: getHostname, else getIPAddress; then it calls
\* getAvailablePort
GetServiceURL ==
    /\ pc = "serviceURL"
    /\ steps' = Append(steps, "resolve")
    /\ \E host \in Hosts \cup {""} :
          IF host = ""
          THEN Fatal("host") /\ url' = url
          ELSE /\ url' = [url EXCEPT !.Host = host]
               /\ pc' = "listen"
               /\ UNCHANGED <<failed, exitStatus>>
    /\ UNCHANGED <<inputVars, netVars, buildVars, ctx, printed, runVars, sigVars>>

\* the ports the system can give to a listener on ":0": those no listener holds
FreePorts == Ports \ bound

\* a slip: the listener is left open when the function returns
Close_Leaked(listener) == listener

\* listener.Close()
Close(listener) == [listener EXCEPT !.open = FALSE]

\* getAvailablePort: net.Listen("tcp", ":0"); on an error `return 0, err`,
\* which GetServiceURL and the Action return in turn
Listen ==
    /\ pc = "listen"
    /\ \E ok \in BOOLEAN :
          IF ok /\ FreePorts # {}
          THEN /\ \E port \in FreePorts : probe' = [open |-> TRUE, port |-> port]
               /\ pc' = "probed"
               /\ UNCHANGED <<failed, exitStatus>>
          ELSE /\ probe' = probe
               /\ Fatal("port")
    /\ UNCHANGED <<inputVars, bound, buildVars, url, ctx, steps, printed, runVars,
                   sigVars>>

\* getAvailablePort: listener.Addr().(*net.TCPAddr).Port, `return port, nil`
\* and the deferred listener.Close(); then GetServiceURL's getWorkspaceFolder
\* and its ServiceURL
getAvailablePort ==
    /\ pc = "probed"
    /\ probe' = Close(probe)
    /\ LET port == probe.port
           workspaceFolder == getWorkspaceFolder(devcontainer)
       IN  IF workspaceFolder.err
           THEN Fatal("workspaceFolder") /\ url' = url
           ELSE /\ url' = [valid |-> TRUE, Host |-> url.Host, Port |-> port,
                           WorkspaceFolder |-> workspaceFolder.val]
                /\ pc' = "createRunCmd"
                /\ UNCHANGED <<failed, exitStatus>>
    /\ UNCHANGED <<inputVars, bound, buildVars, ctx, steps, printed, runVars, sigVars>>

\* the arguments of `docker run` NewContainerContext builds
runCmd(tag, d, serviceURL, name, workspaceBinding) ==
    [p |-> serviceURL.Port, name |-> name, mount |-> workspaceBinding,
     w |-> serviceURL.WorkspaceFolder, runArgs |-> d.RunArgs,
     forwardPorts |-> d.ForwardPorts, u |-> d.RemoteUser, image |-> tag]

\* project.NewContainerContext (main calls it as CreateRunCmd); name is
\* makeRandomString()
NewContainerContext ==
    /\ pc = "createRunCmd"
    /\ steps' = Append(steps, "construct")
    /\ \E name \in ContainerNames :
          LET workspaceBinding == getWorkspaceBinding(devcontainer)
          IN  IF workspaceBinding.err
              THEN Fatal("workspaceBinding") /\ ctx' = ctx
              ELSE /\ ctx' = [valid |-> TRUE, name |-> name,
                              cmd |-> runCmd(buildCmd.tag, devcontainer, url, name,
                                             workspaceBinding.val)]
                   /\ pc' = "print"
                   /\ UNCHANGED <<failed, exitStatus>>
    /\ UNCHANGED <<inputVars, netVars, buildVars, url, printed, runVars, sigVars>>

\* ServiceURL.String: http://Host:Port/?folder=WorkspaceFolder
urlString(u) == [Host |-> u.Host, Port |-> u.Port, folder |-> u.WorkspaceFolder]

prettyUrlPrint ==
    /\ pc = "print"
    /\ steps' = Append(steps, "print")
    /\ printed' = Append(printed, urlString(url))
    /\ pc' = "run"
    /\ UNCHANGED <<inputVars, netVars, buildVars, url, ctx, failed, runVars, sigVars, exitStatus>>

----------------------------------------------------------------------------
(* ContainerContext.Run, called by main, which drops the error it returns   *)
(* and returns nil: the process then exits with status 0.                   *)

\* `cmd.Run(); return nil` once Run has returned
mainReturns ==
    /\ pc' = "exited"
    /\ exitStatus' = "0"

\* a slip: Run stops the container also when it could not start it
StartFailed_Kills ==
    /\ runErr' = "start"
    /\ kills' = Append(kills, ctx.name)
    /\ UNCHANGED <<started, containerAlive>>
    /\ mainReturns

\* c.cmd.Start() failed: `return err`
StartFailed ==
    /\ runErr' = "start"
    /\ UNCHANGED <<started, containerAlive, kills>>
    /\ mainReturns

\* c.cmd.Start(), and `defer c.cmd.Wait()`: `docker run -p 0.0.0.0:p:8080`
\* binds the port, and the container does not come up when another process
\* holds it
CmdStart ==
    /\ pc = "run"
    /\ steps' = Append(steps, "run")
    /\ \E ok \in BOOLEAN :
          IF ok
          THEN /\ started' = TRUE
               /\ containerAlive' = (ctx.cmd.p \notin bound)
               /\ pc' = "started"
               /\ UNCHANGED <<runErr, kills, exitStatus>>
          ELSE StartFailed
    /\ UNCHANGED <<inputVars, netVars, buildVars, url, ctx, failed, printed, sigVars>>

\* waitForSignal: make(chan os.Signal) and signal.Notify
SignalNotify ==
    /\ pc = "started"
    /\ pc' = "notified"
    /\ UNCHANGED <<inputVars, netVars, buildVars, url, ctx, steps, failed, printed, runVars,
                   sigVars, exitStatus>>

\* waitForSignal: the goroutine parks in `<-s`
ChannelReceive ==
    /\ pc = "notified"
    /\ pc' = "waiting"
    /\ UNCHANGED <<inputVars, netVars, buildVars, url, ctx, steps, failed, printed, runVars,
                   sigVars, exitStatus>>

\* the container exits by itself
ContainerExits ==
    /\ pc # "exited"
    /\ containerAlive
    /\ containerAlive' = FALSE
    /\ UNCHANGED <<pc, inputVars, netVars, buildVars, url, ctx, steps, failed, printed,
                   started, runErr, kills, sigVars, exitStatus>>

\* the name stop passes to `docker kill`: a slip, a name generated anew
killTarget_Fresh(c) == CHOOSE n \in ContainerNames : n # c.name

\* the name stop passes to `docker kill`
killTarget(c) == c.name

\* c.stop(): `docker kill name`; it fails when the container is gone
stop ==
    /\ pc = "stop"
    /\ kills' = Append(kills, killTarget(ctx))
    /\ \E ok \in BOOLEAN :
          IF ok /\ containerAlive
          THEN containerAlive' = FALSE /\ runErr' = "nil"
          ELSE containerAlive' = containerAlive /\ runErr' = "kill"
    /\ pc' = "deferWait"
    /\ UNCHANGED <<inputVars, netVars, buildVars, url, ctx, steps, failed, printed, started,
                   sigVars, exitStatus>>

\* the deferred c.cmd.Wait() returns once the `docker run` process has exited
DeferredWait ==
    /\ pc = "deferWait"
    /\ ~containerAlive
    /\ mainReturns
    /\ UNCHANGED <<inputVars, netVars, buildVars, url, ctx, steps, failed, printed, runVars,
                   sigVars>>

----------------------------------------------------------------------------
(* The operating system delivers SIGHUP, SIGINT or SIGTERM.                 *)

\* signal.Notify has been called for the three signals
Notified == pc \in {"notified", "waiting", "stop", "deferWait"}

\* Go's default for these signals: the program exits
KilledBySignal ==
    /\ pc' = "exited"
    /\ exitStatus' = "signal"

\* no signal.Notify yet
SignalBeforeNotify ==
    /\ pc # "exited"
    /\ ~Notified
    /\ IF started
       THEN sigAfterStart < MaxSignals /\ sigAfterStart' = sigAfterStart + 1
       ELSE sigAfterStart' = sigAfterStart
    /\ KilledBySignal
    /\ UNCHANGED <<inputVars, netVars, buildVars, url, ctx, steps, failed, printed, runVars,
                   sigDropped, sigRecv>>

\* os/signal sends without blocking: with no receiver parked on the
\* unbuffered channel the signal is dropped
SignalDropped ==
    /\ pc \in {"notified", "stop", "deferWait"}
    /\ sigAfterStart < MaxSignals
    /\ sigAfterStart' = sigAfterStart + 1
    /\ sigDropped' = sigDropped + 1
    /\ UNCHANGED <<pc, inputVars, netVars, buildVars, url, ctx, steps, failed, printed, runVars,
                   sigRecv, exitStatus>>

\* the parked receive gets the signal: waitForSignal returns
SignalReceived ==
    /\ pc = "waiting"
    /\ sigAfterStart < MaxSignals
    /\ sigAfterStart' = sigAfterStart + 1
    /\ sigRecv' = TRUE
    /\ pc' = "stop"
    /\ UNCHANGED <<inputVars, netVars, buildVars, url, ctx, steps, failed, printed, runVars,
                   sigDropped, exitStatus>>

DeliverSignal ==
    \E sig \in Signals : SignalBeforeNotify \/ SignalDropped \/ SignalReceived

----------------------------------------------------------------------------
(* The other processes of the host open and close listeners of their own.   *)

\* the port is held by the probe listener or by the running container
Held(p) ==
    \/ probe.open /\ probe.port = p
    \/ containerAlive /\ ctx.cmd.p = p

OtherBinds ==
    /\ pc # "exited"
    /\ \E p \in Ports \ bound :
          /\ ~Held(p)
          /\ bound' = bound \cup {p}
    /\ UNCHANGED <<pc, inputVars, probe, buildVars, url, ctx, steps, failed, printed,
                   runVars, sigVars, exitStatus>>

OtherReleases ==
    /\ pc # "exited"
    /\ \E p \in bound : bound' = bound \ {p}
    /\ UNCHANGED <<pc, inputVars, probe, buildVars, url, ctx, steps, failed, printed,
                   runVars, sigVars, exitStatus>>

----------------------------------------------------------------------------

Next ==
    \/ CheckArgs
    \/ StatProjectDir
    \/ StatDevcontainerDir
    \/ parseDevcontainerJson
    \/ BuildImage
    \/ GetServiceURL
    \/ Listen
    \/ getAvailablePort
    \/ NewContainerContext
    \/ prettyUrlPrint
    \/ CmdStart
    \/ SignalNotify
    \/ ChannelReceive
    \/ ContainerExits
    \/ stop
    \/ DeferredWait
    \/ DeliverSignal
    \/ OtherBinds
    \/ OtherReleases

Init == InitOf(Cases)

Spec == Init /\ [][Next]_vars

\* the runs of the image definition builder: main up to and including BuildImage
InitBuild == InitOf(BuildCases)

NextBuild ==
    \/ CheckArgs
    \/ StatProjectDir
    \/ StatDevcontainerDir
    \/ parseDevcontainerJson
    \/ BuildImage

SpecBuild == InitBuild /\ [][NextBuild]_vars

\* the same runs, over every combination of sub-steps whose call fails
WrapCases ==
    { <<Config(DemoName, c[1], c[2], <<>>, <<>>, DefaultDirPath, ""),
        FullGist, c[3], c[4]>> :
      c \in {<<>>, <<"ext.a", "ext.b">>}
            \X {EmptyMap, [k \in {"a"} |-> Scalar(1)], [k \in {"a"} |-> NaN]}
            \X {Disk(FromUbuntu), NoDisk} \X BOOLEAN }

InitWrap == InitOfFailing(WrapCases, SUBSET SubSteps)

SpecWrap == InitWrap /\ [][NextBuild]_vars

----------------------------------------------------------------------------
(* The Container Run Controller's states, read off the program's position. *)

Phase ==
    CASE pc = "run" -> "Starting"
      [] pc \in {"started", "notified", "waiting"} -> "Running"
      [] pc = "stop" -> "Stopping"
      [] pc = "deferWait" -> "Stopped"
      [] pc = "exited" /\ exitStatus = "signal" -> "Killed"
      [] pc = "exited" /\ exitStatus # "signal" /\ runErr = "start" -> "StartFailed"
      [] pc = "exited" /\ exitStatus # "signal" /\ runErr # "start" /\ started -> "Stopped"
      [] OTHER -> "None"

----------------------------------------------------------------------------
(* C1. The controller moves Starting -> Running -> Stopping -> Stopped; it  *)
(* leaves Running only in a step in which a termination signal is           *)
(* delivered (the container exiting by itself leaves it Running);           *)
(* `docker kill` is issued only in Stopping, after the run process started  *)
(* and a signal was received; when starting fails, Run returns that error   *)
(* with no signal awaited and no kill issued.                               *)

C1_Transitions ==
    { <<"None", "Starting">>, <<"Starting", "Running">>, <<"Starting", "StartFailed">>,
      <<"Running", "Stopping">>, <<"Stopping", "Stopped">>,
      <<"None", "Killed">>, <<"Starting", "Killed">>, <<"Running", "Killed">> }

C1_State ==
    /\ kills # <<>> => started /\ sigRecv
    /\ runErr = "start" => kills = <<>> /\ ~sigRecv /\ ~started /\ pc = "exited"
    /\ sigRecv => started

C1_Step ==
    /\ Phase' # Phase => <<Phase, Phase'>> \in C1_Transitions
    /\ Phase = "Running" /\ Phase' # "Running" => sigAfterStart' = sigAfterStart + 1
    /\ kills' # kills => Phase = "Stopping" /\ Phase' = "Stopped"

\* C1: the controller takes only these transitions, leaves Running only on a
\* delivered signal, and kills only from Stopping, after a start and a received signal
C1_Controller == [][C1_Step]_vars /\ []C1_State

\* the whole life of the controller, the container having exited by itself on the way
C1_Witness ==
    /\ pc = "exited" /\ Phase = "Stopped"
    /\ sigRecv /\ Len(kills) = 1 /\ runErr = "kill"

----------------------------------------------------------------------------
(* C2. In a run that reached Running and whose controller then received a  *)
(* termination signal (waitForSignal returned), exactly one `docker kill`   *)
(* is issued, never more, and its target is the --name of the run command   *)
(* built by NewContainerContext; the context, once built, never changes.    *)

C2_State ==
    /\ Len(kills) <= 1
    /\ sigRecv /\ pc \in {"deferWait", "exited"} => Len(kills) = 1
    /\ \A i \in DOMAIN kills : ctx.valid /\ kills[i] = ctx.cmd.name

----------------------------------------------------------------------------
(* C3. main invokes parse, build, resolve, construct, print, run in this    *)
(* order, each at most once; once a step has failed no further step is      *)
(* invoked; endpoint resolution happens only after a successful image       *)
(* build, and the banner is printed and the run command launched only       *)
(* after the build succeeded and host, port and workspace folder were       *)
(* resolved and the run command was constructed.                            *)

WorkflowOrder == <<"parse", "build", "resolve", "construct", "print", "run">>

Invoked(step) == step \in Range(steps)

C3_State ==
    /\ Len(steps) <= Len(WorkflowOrder)
    /\ \A i \in DOMAIN steps : steps[i] = WorkflowOrder[i]
    /\ Invoked("resolve") => buildCmd.issued /\ buildCmd.ok
    /\ Invoked("construct") => url.valid
    /\ Invoked("print") \/ Invoked("run") \/ printed # <<>> \/ started =>
          /\ buildCmd.issued /\ buildCmd.ok
          /\ url.valid /\ url.Host \in Hosts /\ url.Port \in Ports
          /\ ~getWorkspaceFolder(devcontainer).err
          /\ url.WorkspaceFolder = getWorkspaceFolder(devcontainer).val
          /\ ctx.valid
    /\ Len(printed) <= 1
    /\ started => Invoked("run") /\ printed # <<>>

C3_Step ==
    /\ failed # "none" \/ runErr = "start" => steps' = steps
    /\ buildCmd.issued => buildCmd' = buildCmd

\* C3: the steps invoked are a prefix of the fixed order, nothing follows a
\* failure, print and run need a built image and a resolved endpoint
C3_Workflow == [][C3_Step]_vars /\ []C3_State

C3_Witness == steps = WorkflowOrder /\ started /\ pc = "waiting"

----------------------------------------------------------------------------
(* C4. The process exits with a non-zero status on every fatal error, the   *)
(* failure to start the container process included, and with status zero    *)
(* only after the container was started, a termination signal was received  *)
(* and the kill command was issued.                                         *)

NormalShutdown == started /\ sigRecv /\ Len(kills) = 1

FatalError == failed # "none" \/ runErr = "start"

C4_ExitStatus ==
    pc = "exited" =>
        /\ FatalError => exitStatus # "0"
        /\ exitStatus = "0" => NormalShutdown

----------------------------------------------------------------------------
(* The build definition sent to `docker build`, as the claims read it.      *)

BaseLen == Len(dockerfileOnDisk.content)

\* the lines wrapDockerFile appended to the base Dockerfile
Appended == SubSeq(buildCmd.stdin, BaseLen + 1, Len(buildCmd.stdin))

\* the place of an instruction in the documented order; 0 for an empty line
\* and for the mkdir/chmod lines that accompany a written file
Rank(line) ==
    CASE line = CodeServerInstall -> 1
      [] line.text = WriteSettings -> 2
      [] line.text = WriteKeybindings -> 3
      [] line.text = WriteEntrypoint -> 4
      [] line.text = InstallExtension -> 5
      [] line = ConfigYaml -> 6
      [] line = ChmodCodeServer -> 7
      [] line = Entrypoint -> 8
      [] OTHER -> 0

IsInstruction(line) == Rank(line) > 0
IsExtensionInstall(line) == Rank(line) = 5

Instructions == SelectSeq(Appended, IsInstruction)

\* the gist's settings.json was fetched and parsed in this run
RemoteParsed ==
    /\ fetched[SettingsFile] = "ok"
    /\ gist[SettingsFile].form = "object"

\* the settings step failed: the map to write holds a number JSON cannot
\* express, a local one or one the merge took from the gist
SettingsStepFailed ==
    LET local == devcontainer.Settings
    IN  \/ \E k \in DOMAIN local : local[k] = NaN
        \/ /\ RemoteParsed
           /\ \E k \in DOMAIN gist[SettingsFile].settings :
                 /\ gist[SettingsFile].settings[k] = NaN
                 /\ k \in DOMAIN local => isEmptyValue(local[k])

----------------------------------------------------------------------------
(* C5. The build definition is the base Dockerfile's content followed by    *)
(* the editor install, the settings file, the keybindings file (when there  *)
(* is one), the startup script, one extension install per requested         *)
(* extension in list order, the auth-disabled config, the permission        *)
(* relaxation and, as the last line, the ENTRYPOINT declaration, whichever  *)
(* of the contributions are empty.                                          *)

C5_FixedOrder ==
    buildCmd.issued =>
        LET text == buildCmd.stdin
            ins == Instructions
            exts == SelectSeq(ins, IsExtensionInstall)
        IN  /\ Len(text) > BaseLen
            /\ SubSeq(text, 1, BaseLen) = dockerfileOnDisk.content
            /\ text[BaseLen + 1] = CodeServerInstall
            /\ text[Len(text)] = Entrypoint
            /\ \A i, j \in DOMAIN ins :
                  i < j => /\ Rank(ins[i]) <= Rank(ins[j])
                           /\ Rank(ins[i]) = Rank(ins[j]) => Rank(ins[i]) = 5
            /\ {1, 4, 6, 7, 8} \subseteq {Rank(ins[i]) : i \in DOMAIN ins}
            /\ SettingsStepFailed \/ \E i \in DOMAIN ins : Rank(ins[i]) = 2
            /\ [i \in DOMAIN exts |-> exts[i].arg] = devcontainer.Extensions

\* two extensions, the second-listed one sorting first, and no keybindings:
\* an empty contribution between the settings and the startup script
C5_Witness ==
    /\ buildCmd.issued
    /\ devcontainer.Extensions = <<"ext.b", "ext.a">>
    /\ \A i \in DOMAIN Appended : Rank(Appended[i]) # 3
    /\ \E i \in DOMAIN Appended : Appended[i] = Line("")
    /\ dockerfileOnDisk.content = <<Line("FROM ubuntu"), Entrypoint>>

----------------------------------------------------------------------------
(* C6. As claimed: with SETTINGS_SYNC_GIST_ID unset, the settings step and  *)
(* the keybindings step both contribute nothing to the build definition,    *)
(* which is produced all the same.                                          *)

\* BuildImage has run on a readable base Dockerfile
Built == Invoked("build") /\ pc # "build" /\ dockerfileOnDisk.exists

ContributesNothing(text) ==
    \A i \in DOMAIN Appended :
        Appended[i].text # text /\ Appended[i] # MkdirUser

\* C6, as claimed: without the gist id neither step adds a line to the build definition
C6_NothingWithoutGist ==
    Built /\ ~gistIdSet =>
        /\ buildCmd.issued
        /\ ContributesNothing(WriteSettings)
        /\ ContributesNothing(WriteKeybindings)

(* C6, amended. With SETTINGS_SYNC_GIST_ID unset no gist is asked for       *)
(* anything, the keybindings step contributes nothing (the empty string),   *)
(* the settings step contributes the two instructions that write the local  *)
(* settings alone (nothing when the local settings cannot be written as     *)
(* JSON), and the build definition is produced all the same.                *)

C6_LocalSettingsOnly ==
    Built /\ ~gistIdSet =>
        /\ buildCmd.issued
        /\ \A f \in GistFiles : fetched[f] \in {"noid", "notcalled"}
        /\ fetched[SettingsFile] = "noid"
        /\ IF SettingsStepFailed
           THEN /\ SubSeq(Appended, 1, 3) = <<CodeServerInstall, Line(""), Line("")>>
                /\ ContributesNothing(WriteSettings)
           ELSE SubSeq(Appended, 1, 4) =
                   <<CodeServerInstall, MkdirUser,
                     LineB64(WriteSettings, SettingsPayload(devcontainer.Settings)),
                     Line("")>>
        /\ \A i \in DOMAIN Appended :
              /\ Appended[i].text # WriteKeybindings
              /\ i > 3 => Appended[i].text # WriteSettings /\ Appended[i] # MkdirUser

\* no gist id, though the gist holds settings the local map lacks
C6_Witness ==
    /\ Built /\ ~gistIdSet /\ buildCmd.issued
    /\ devcontainer.Settings # EmptyMap
    /\ SettingsFile \in DOMAIN gist
    /\ gist[SettingsFile].form = "object"
    /\ \E k \in DOMAIN gist[SettingsFile].settings :
          /\ k \notin DOMAIN devcontainer.Settings
          /\ gist[SettingsFile].settings[k] = Scalar(2)

----------------------------------------------------------------------------
(* C7. When the gist's settings.json was fetched and parsed, the settings   *)
(* map written to settings.json holds every local key with its local value  *)
(* and every remote key the local map lacks with the remote value; when     *)
(* the fetch or the parse failed it is the local map (the settings being    *)
(* ones JSON can express).                                                  *)

\* the settings maps written by the build definition's settings instructions
WrittenSettings ==
    {Appended[i].b64.settings : i \in {j \in DOMAIN Appended : Appended[j].text = WriteSettings}}

\* C7: local keys keep their local values, remote-only keys are added, a failed
\* fetch or parse leaves the local map
C7_LocalPrecedence ==
    buildCmd.issued /\ ~SettingsStepFailed =>
        /\ WrittenSettings # {}
        /\ \A merged \in WrittenSettings :
              LET local == devcontainer.Settings
              IN  IF RemoteParsed
                  THEN LET remote == gist[SettingsFile].settings
                       IN  /\ \A k \in DOMAIN local :
                                 k \in DOMAIN merged /\ merged[k] = local[k]
                           /\ \A k \in DOMAIN remote \ DOMAIN local :
                                 k \in DOMAIN merged /\ merged[k] = remote[k]
                  ELSE merged = local

----------------------------------------------------------------------------
(* The target of a bind-mount string: the text after "target=" in the first *)
(* comma-separated field that starts with it.                               *)

RECURSIVE Fields(_)
Fields(str) ==
    LET commas == {i \in DOMAIN str : str[i] = ","}
    IN  IF commas = {} THEN <<str>>
        ELSE LET i == CHOOSE c \in commas : \A d \in commas : c <= d
             IN  <<SubSeq(str, 1, i - 1)>> \o Fields(SubSeq(str, i + 1, Len(str)))

TargetOf(binding) ==
    LET fields == Fields(binding)
        targets == {i \in DOMAIN fields : fields[i] # <<>> /\ fields[i][1] = "target="}
    IN  IF targets = {} THEN <<>>
        ELSE Tail(fields[CHOOSE i \in targets : \A j \in targets : i <= j])

----------------------------------------------------------------------------
(* C8. As claimed: for every config, the target path of the bind mount of   *)
(* the run command is its working directory (-w), the resolved workspace    *)
(* folder, which is also the folder of the printed URL.                     *)

C8_TargetIsFolder ==
    ctx.valid =>
        /\ TargetOf(ctx.cmd.mount) = ctx.cmd.w
        /\ ctx.cmd.w = url.WorkspaceFolder
        /\ \A i \in DOMAIN printed : printed[i].folder = ctx.cmd.w

(* C8, amended. For every config the working directory (-w) of the run      *)
(* command and the folder of the printed URL are the workspace folder       *)
(* getWorkspaceFolder resolved; for a config that leaves both               *)
(* workspaceMount and workspaceFolder to their defaults the bind mount is   *)
(* source=<project directory>,target=<that folder>,type=bind, the folder    *)
(* being /workspace/<base name of the project directory>.                   *)

C8_DefaultsAgree ==
    ctx.valid =>
        /\ ctx.cmd.w = getWorkspaceFolder(devcontainer).val
        /\ ctx.cmd.w = url.WorkspaceFolder
        /\ ctx.cmd.mount = getWorkspaceBinding(devcontainer).val
        /\ \A i \in DOMAIN printed : printed[i].folder = ctx.cmd.w
        /\ devcontainer.WorkspaceMount = <<>> /\ devcontainer.WorkspaceFolder = <<>> =>
              /\ ctx.cmd.w = <<"/", "workspace", "/", Base(Dir(devcontainer.DirPath))>>
              /\ ctx.cmd.mount = <<"source=">> \o PathStr(Dir(devcontainer.DirPath))
                                    \o <<",", "target=">> \o ctx.cmd.w
                                    \o <<",", "type=bind">>

\* both left to their defaults, in a project at the root of the file system
C8_Witness ==
    /\ ctx.valid /\ printed # <<>>
    /\ devcontainer.WorkspaceMount = <<>> /\ devcontainer.WorkspaceFolder = <<>>
    /\ devcontainer.DirPath = <<".devcontainer">>
    /\ TargetOf(ctx.cmd.mount) = <<"/", "workspace", "/", "/">>

----------------------------------------------------------------------------
(* C9. The image tag passed to `docker build -t` is the display name,       *)
(* character by character, with upper-case letters lowered and spaces       *)
(* replaced by "_", followed by _code_coder_server: it holds no upper-case  *)
(* letter and no space, it depends on nothing but the name, and the run     *)
(* command uses the same tag as its image.                                  *)

C9_ImageTag ==
    buildCmd.issued =>
        LET tag == buildCmd.tag
            name == devcontainer.Name
        IN  /\ \A i \in DOMAIN tag : tag[i] \notin UpperChars /\ tag[i] # " "
            /\ Len(tag) = Len(name) + Len(TagSuffix)
            /\ SubSeq(tag, Len(name) + 1, Len(tag)) = TagSuffix
            /\ \A i \in DOMAIN name :
                  \/ name[i] \notin UpperChars \cup {" "} /\ tag[i] = name[i]
                  \/ name[i] = "A" /\ tag[i] = "a"
                  \/ name[i] = "B" /\ tag[i] = "b"
                  \/ name[i] = " " /\ tag[i] = "_"
            /\ ctx.valid => ctx.cmd.image = tag

C9_Witness ==
    /\ buildCmd.issued /\ ctx.valid
    /\ devcontainer.Name = <<"A", " ">>
    /\ ctx.cmd.image = <<"a", "_">> \o TagSuffix

----------------------------------------------------------------------------
(* C10. Every termination signal delivered after the container process was *)
(* started leads to the kill command and to the program's end: none is      *)
(* dropped while no signal has been received yet, and the program never     *)
(* ends after such a signal without having issued the kill.                 *)

C10_NoSignalLost ==
    /\ sigAfterStart > 0 /\ pc = "exited" => Len(kills) = 1
    /\ sigDropped > 0 => sigRecv

----------------------------------------------------------------------------
(* C11. getAvailablePort never returns a port another listener holds at the *)
(* instant of the call; on every return path the probe socket it opened is  *)
(* closed before it returns; and from that return until `docker run` binds  *)
(* the port nothing reserves it, so another process can bind it.            *)

\* getAvailablePort has been called and has returned
PortResolved == url.valid \/ failed \in {"port", "workspaceFolder"}

\* the port is resolved and `docker run` has not yet been started with it
InWindow == url.valid /\ pc \in {"createRunCmd", "print", "run"}

\* another process binds the resolved port in this step
OtherBindsResolvedPort == OtherBinds /\ url.Port \in bound'

C11_State ==
    \* while the probe socket is open no other listener holds its port
    /\ probe.open => probe.port \in Ports \ bound
    \* the error path opened no socket, the other path has closed its socket
    /\ PortResolved => ~probe.open
    /\ failed = "port" => probe = NoProbe
    \* the port returned is the one the system gave to the probe socket
    /\ url.valid => url.Port = probe.port
    \* in the window nothing holds the port, and another process can bind it
    /\ InWindow => ~Held(url.Port)
    /\ InWindow /\ url.Port \notin bound => ENABLED OtherBindsResolvedPort

C11_Step ==
    \* the port the probe socket gets is free at the instant of net.Listen
    /\ ~probe.open /\ probe'.open => probe'.port \notin bound
    \* and still free at the instant getAvailablePort returns it
    /\ ~url.valid /\ url'.valid => url'.Port \notin bound /\ ~probe'.open

\* C11: the port returned is free at the call, the probe socket is closed on
\* every return path, and the port is unreserved until the container binds it
C11_ProbeClosedPortFree == [][C11_Step]_vars /\ []C11_State

\* the port was returned, and another process has bound it before `docker run`
C11_Witness == InWindow /\ pc = "run" /\ ~probe.open /\ url.Port \in bound

----------------------------------------------------------------------------
(* C12. As claimed: a failing instruction-producing sub-step of             *)
(* wrapDockerFile (startup script, extension install, permission            *)
(* relaxation, config file, settings, keybindings) is not fatal: it         *)
(* contributes the empty string and the build definition still holds the    *)
(* base Dockerfile, the editor install, what every other step contributes   *)
(* and the ENTRYPOINT; only a base Dockerfile that cannot be read makes     *)
(* wrapDockerFile return an error.                                          *)

\* the call of the sub-step returned an error to wrapDockerFile
StepFailed(step) ==
    \/ step \in stepFails
    \/ step = "createSettingJson" /\ SettingsStepFailed

\* a keybindings file of the gist was fetched and parsed in this run
KeybindingsParsed ==
    \E f \in Range(KeybindingsFiles) : fetched[f] = "ok" /\ gist[f].form = "list"

\* the first line of the build definition that writes with this instruction
Writing(text) == SubSeq(SelectSeq(Appended, LAMBDA l : l.text = text), 1, 1)

\* what a sub-step contributes: the empty string when it failed
Contribution(step, lines) == IF StepFailed(step) THEN <<Line("")>> ELSE lines

EntryScriptLines ==
    <<MkdirCodeServer,
      LineB64(WriteEntrypoint,
              ScriptPayload(<<"#!/bin/bash", "set -e", "set -x",
                              devcontainer.PostCreateCommand, LaunchCodeServer>>)),
      ChmodEntrypoint>>

\* the lines after the base Dockerfile, given the lines of the startup script
AppendedWith(entryScript) ==
    <<CodeServerInstall>>
    \o Contribution("createSettingJson", <<MkdirUser>> \o Writing(WriteSettings))
    \o Contribution("createKeybindingsJson",
                    IF KeybindingsParsed
                    THEN <<MkdirUser>> \o Writing(WriteKeybindings)
                    ELSE <<Line("")>>)
    \o entryScript
    \o Contribution("installExtensions",
                    IF devcontainer.Extensions = <<>> THEN <<Line("")>>
                    ELSE [i \in DOMAIN devcontainer.Extensions |->
                             LineArg(InstallExtension, devcontainer.Extensions[i])])
    \o Contribution("createConfigYaml", <<ConfigYaml>>)
    \o Contribution("modifyCodeServerDirPermissions", <<ChmodCodeServer>>)
    \o <<Entrypoint>>

BuildImageReturned == Invoked("build") /\ pc # "build"

====
